---- MODULE Spec2Model ----
(***************************************************************************)
(* Model of the reducer constructors of redux-kit (src/src/configure.ts).  *)
(*                                                                         *)
(* A Redux store is built on one root reducer (or, for a batch, on the     *)
(* reducers of the batch, one per slice) and hands every dispatched        *)
(* action to it.  The model holds one store: `kind` says which constructor *)
(* built its reducer, `args` holds the constructor's arguments, `prefix`   *)
(* and `defaultState` are the values the constructor closed over, `state`  *)
(* is the store's state, `last` is the action dispatched most recently and *)
(* `outcome` says whether the reducer returned a state for it or threw.    *)
(*                                                                         *)
(* JavaScript values: objects are functions from field names to values (a  *)
(* missing field is a name outside the DOMAIN), arrays are sequences,      *)
(* null and undefined are the strings Null and Undefined.                  *)
(***************************************************************************)
EXTENDS Integers, Sequences, FiniteSets, TLC

VARIABLES kind, args, prefix, defaultState, state, last, outcome

vars == <<kind, args, prefix, defaultState, state, last, outcome>>

Null == "null"
Undefined == "undefined"

(***************************************************************************)
(* Object helpers: {...a, ...b}, obj[k] = v, delete obj[k], {}.            *)
(***************************************************************************)
EmptyObject == <<>>

Spread(a, b) ==
  [k \in (DOMAIN a) \cup (DOMAIN b) |-> IF k \in DOMAIN b THEN b[k] ELSE a[k]]

Assign(obj, k, v) ==
  [x \in (DOMAIN obj) \cup {k} |-> IF x = k THEN v ELSE obj[x]]

Delete(obj, k) ==
  [x \in (DOMAIN obj) \ {k} |-> obj[x]]

Has(obj, k) == k \in DOMAIN obj

(***************************************************************************)
(* Actions {type, payload?, key?}.  A key is used when it is truthy: a     *)
(* present, non-empty string.  A missing payload reads as undefined.       *)
(***************************************************************************)
KeyIsTruthy(action) == Has(action, "key") /\ action.key # ""

PayloadOf(action) == IF Has(action, "payload") THEN action.payload ELSE Undefined

(***************************************************************************)
(* ActionTypeMaker (actionKits, not among the sources): prefix + suffix.   *)
(***************************************************************************)
ActionTypeMaker_PENDING(p) == p \o "_PENDING"
ActionTypeMaker_SUCCESS(p) == p \o "_SUCCESS"
ActionTypeMaker_FAIL(p) == p \o "_FAIL"
ActionTypeMaker_RESET(p) == p \o "_RESET"
ActionTypeMaker_UPDATE(p) == p \o "_UPDATE"
ActionTypeMaker_ADD_LAST(p) == p \o "_ADD_LAST"
ActionTypeMaker_ADD_FIRST(p) == p \o "_ADD_FIRST"
ActionTypeMaker_REPLACE(p) == p \o "_REPLACE"
ActionTypeMaker_REMOVE(p) == p \o "_REMOVE"

(***************************************************************************)
(* lodash _.unset(object, path) for a string path.  stringToPath splits    *)
(* the path at every "."; the parent of the last segment is looked up      *)
(* segment by segment, and the last segment is deleted from it when the    *)
(* parent is an object.  In an IAsyncState the objects are the state       *)
(* itself (depth 0), its dataEntity (depth 1) and the entries of           *)
(* dataEntity (depth 2); every other field holds a primitive, on which     *)
(* delete does nothing.                                                    *)
(***************************************************************************)
RECURSIVE SplitAt(_, _, _)
SplitAt(s, from, i) ==
  IF i > Len(s) THEN <<SubSeq(s, from, Len(s))>>
  ELSE IF SubSeq(s, i, i) = "." THEN <<SubSeq(s, from, i - 1)>> \o SplitAt(s, i + 1, i + 1)
  ELSE SplitAt(s, from, i + 1)

stringToPath(s) == SplitAt(s, 1, 1)

HoldsObject(depth, name) == (depth = 0 /\ name = "dataEntity") \/ depth = 1

RECURSIVE baseUnset(_, _, _)
baseUnset(object, path, depth) ==
  IF Len(path) = 1 THEN Delete(object, path[1])
  ELSE IF Has(object, path[1]) /\ HoldsObject(depth, path[1])
       THEN [object EXCEPT ![path[1]] = baseUnset(@, Tail(path), depth + 1)]
       ELSE object

unset(object, path) == baseUnset(object, stringToPath(path), 0)

(***************************************************************************)
(* createAsyncReducer                                                      *)
(***************************************************************************)
defaultAsyncState == [data |-> Null, pending |-> FALSE, error |-> Null]

AsyncDefaultState(initialState) == Spread(defaultAsyncState, initialState)

DataEntityOf(draft) == IF Has(draft, "dataEntity") THEN draft.dataEntity ELSE EmptyObject

\* Mutant: a keyed PENDING sets the top-level pending as well.
AsyncPending_AlsoTopLevel(dflt, draft, action) ==
  IF KeyIsTruthy(action)
  THEN LET entity == DataEntityOf(draft)
           entry == IF Has(entity, action.key)
                    THEN Assign(entity[action.key], "pending", TRUE)
                    ELSE Spread(dflt, [pending |-> TRUE])
       IN Assign(Assign(draft, "dataEntity", Assign(entity, action.key, entry)),
                 "pending", TRUE)
  ELSE Assign(draft, "pending", TRUE)

AsyncPending(dflt, draft, action) ==
  IF KeyIsTruthy(action)
  THEN LET entity == DataEntityOf(draft)
           entry == IF Has(entity, action.key)
                    THEN Assign(entity[action.key], "pending", TRUE)
                    ELSE Spread(dflt, [pending |-> TRUE])
       IN Assign(draft, "dataEntity", Assign(entity, action.key, entry))
  ELSE Assign(draft, "pending", TRUE)

\* Mutant: the unkeyed SUCCESS forgets to clear error.
AsyncSuccess_KeepsError(dflt, draft, action) ==
  IF KeyIsTruthy(action)
  THEN LET entity == DataEntityOf(draft)
           entry == IF Has(entity, action.key)
                    THEN Spread(entity[action.key],
                                [data |-> PayloadOf(action), error |-> Null, pending |-> FALSE])
                    ELSE [data |-> PayloadOf(action), error |-> Null, pending |-> FALSE]
       IN Assign(draft, "dataEntity", Assign(entity, action.key, entry))
  ELSE Spread(draft, [data |-> PayloadOf(action), pending |-> FALSE])

AsyncSuccess(dflt, draft, action) ==
  IF KeyIsTruthy(action)
  THEN LET entity == DataEntityOf(draft)
           entry == IF Has(entity, action.key)
                    THEN Spread(entity[action.key],
                                [data |-> PayloadOf(action), error |-> Null, pending |-> FALSE])
                    ELSE [data |-> PayloadOf(action), error |-> Null, pending |-> FALSE]
       IN Assign(draft, "dataEntity", Assign(entity, action.key, entry))
  ELSE Spread(draft, [data |-> PayloadOf(action), error |-> Null, pending |-> FALSE])

\* Mutant: the unkeyed FAIL drops the data, as { pending: false, error } would.
AsyncFail_DropsData(dflt, draft, action) ==
  IF KeyIsTruthy(action)
  THEN LET entity == DataEntityOf(draft)
           entry == IF Has(entity, action.key)
                    THEN Spread(entity[action.key],
                                [error |-> PayloadOf(action), pending |-> FALSE])
                    ELSE Spread(dflt, [error |-> PayloadOf(action), pending |-> TRUE])
       IN Assign(draft, "dataEntity", Assign(entity, action.key, entry))
  ELSE Spread(draft, [data |-> Null, error |-> PayloadOf(action), pending |-> FALSE])

\* Mutant: the keyed FAIL creates a missing entry with pending false.
AsyncFail_FreshNotPending(dflt, draft, action) ==
  IF KeyIsTruthy(action)
  THEN LET entity == DataEntityOf(draft)
           entry == IF Has(entity, action.key)
                    THEN Spread(entity[action.key],
                                [error |-> PayloadOf(action), pending |-> FALSE])
                    ELSE Spread(dflt, [error |-> PayloadOf(action), pending |-> FALSE])
       IN Assign(draft, "dataEntity", Assign(entity, action.key, entry))
  ELSE Spread(draft, [error |-> PayloadOf(action), pending |-> FALSE])

AsyncFail(dflt, draft, action) ==
  IF KeyIsTruthy(action)
  THEN LET entity == DataEntityOf(draft)
           entry == IF Has(entity, action.key)
                    THEN Spread(entity[action.key],
                                [error |-> PayloadOf(action), pending |-> FALSE])
                    ELSE Spread(dflt, [error |-> PayloadOf(action), pending |-> TRUE])
       IN Assign(draft, "dataEntity", Assign(entity, action.key, entry))
  ELSE Spread(draft, [error |-> PayloadOf(action), pending |-> FALSE])

\* Mutant: the unkeyed RESET restores the configured default state.
AsyncReset_ToDefault(dflt, draft, action) ==
  IF KeyIsTruthy(action)
  THEN IF action.key = "*"
       THEN unset(draft, "dataEntity")
       ELSE unset(draft, "dataEntity." \o action.key)
  ELSE Spread(draft, [data |-> dflt.data, error |-> dflt.error, pending |-> dflt.pending])

AsyncReset(dflt, draft, action) ==
  IF KeyIsTruthy(action)
  THEN IF action.key = "*"
       THEN unset(draft, "dataEntity")
       ELSE unset(draft, "dataEntity." \o action.key)
  ELSE Spread(draft, [data |-> Null, error |-> Null, pending |-> FALSE])

\* Mutant: the default case returns the default state.
AsyncFallThrough_ReturnsDefault(dflt, st, action) == dflt

AsyncFallThrough(dflt, st, action) == st

AsyncReducer(p, dflt, st, action) ==
  CASE action.type = ActionTypeMaker_PENDING(p) -> AsyncPending(dflt, st, action)
    [] action.type = ActionTypeMaker_SUCCESS(p) -> AsyncSuccess(dflt, st, action)
    [] action.type = ActionTypeMaker_FAIL(p) -> AsyncFail(dflt, st, action)
    [] action.type = ActionTypeMaker_RESET(p) -> AsyncReset(dflt, st, action)
    [] OTHER -> AsyncFallThrough(dflt, st, action)

(***************************************************************************)
(* createAsyncPagingReducer                                                *)
(*                                                                         *)
(* A reducer call either returns a state or throws a TypeError (reading a  *)
(* property of undefined).  Items are records with an id.  A payload field *)
(* that the code tests with Array.isArray or for truthiness carries that   *)
(* information: JsArray(items), JsObject(value) or JsNull.                 *)
(***************************************************************************)
TypeError == [exception |-> "TypeError"]

Threw(result) == Has(result, "exception")

JsArray(items) == [isArray |-> TRUE, truthy |-> TRUE, items |-> items]
JsObject(value) == [isArray |-> FALSE, truthy |-> TRUE, value |-> value]
JsNull == [isArray |-> FALSE, truthy |-> FALSE]

defaultAsyncPagingState ==
  [data |-> <<>>, offset |-> 0, pending |-> FALSE, error |-> Null, hasMore |-> TRUE]

PagingDefaultState(initialState) == Spread(defaultAsyncPagingState, initialState)

\* Array.prototype.findIndex on (e) => e.id === id, as a 1-based index; 0 when none.
findIndex(data, id) ==
  LET hits == {i \in 1..Len(data) : data[i].id = id}
  IN IF hits = {} THEN 0 ELSE CHOOSE i \in hits : \A j \in hits : i <= j

splice(data, index) == SubSeq(data, 1, index - 1) \o SubSeq(data, index + 1, Len(data))

\* Mutant: pending and hasMore are set before the payload's fields are copied.
PagingPending_FlagsFirst(dflt, draft, action) ==
  IF ~Has(action, "payload") THEN TypeError
  ELSE LET payload == action.payload
           clear == Has(payload, "clear") /\ payload.clear
           rest == Delete(payload, "clear")
           cleared == IF clear THEN Spread(draft, [data |-> <<>>, offset |-> 0]) ELSE draft
       IN Spread(Spread(cleared, [pending |-> TRUE, hasMore |-> TRUE]), rest)

PagingPending(dflt, draft, action) ==
  IF ~Has(action, "payload") THEN TypeError
  ELSE LET payload == action.payload
           clear == Has(payload, "clear") /\ payload.clear
           rest == Delete(payload, "clear")
           cleared == IF clear THEN Spread(draft, [data |-> <<>>, offset |-> 0]) ELSE draft
       IN Spread(Spread(cleared, rest), [pending |-> TRUE, hasMore |-> TRUE])

\* Mutant: firstOffset is ignored, the new items are always appended.
PagingSuccess_AlwaysAppends(dflt, draft, action) ==
  IF ~Has(action, "payload") THEN TypeError
  ELSE LET payload == action.payload
           rest == Delete(Delete(payload, "data"), "firstOffset")
           newData == IF Has(payload, "data") /\ payload.data.truthy /\ payload.data.isArray
                      THEN payload.data.items ELSE <<>>
           length == Len(newData)
           set == Spread(draft, [data |-> draft.data \o newData,
                                 offset |-> draft.offset + length,
                                 hasMore |-> (length > 0), error |-> Null])
       IN Spread(Spread(set, rest), [pending |-> FALSE])

\* Mutant: pending is cleared before the payload's fields are copied.
PagingSuccess_PendingFirst(dflt, draft, action) ==
  IF ~Has(action, "payload") THEN TypeError
  ELSE LET payload == action.payload
           firstOffset == Has(payload, "firstOffset") /\ payload.firstOffset
           rest == Delete(Delete(payload, "data"), "firstOffset")
           newData == IF Has(payload, "data") /\ payload.data.truthy /\ payload.data.isArray
                      THEN payload.data.items ELSE <<>>
           length == Len(newData)
           listed == IF firstOffset THEN newData ELSE draft.data \o newData
           counted == IF firstOffset THEN length ELSE draft.offset + length
           set == Spread(draft, [data |-> listed, offset |-> counted,
                                 hasMore |-> (length > 0), error |-> Null,
                                 pending |-> FALSE])
       IN Spread(set, rest)

PagingSuccess(dflt, draft, action) ==
  IF ~Has(action, "payload") THEN TypeError
  ELSE LET payload == action.payload
           firstOffset == Has(payload, "firstOffset") /\ payload.firstOffset
           rest == Delete(Delete(payload, "data"), "firstOffset")
           newData == IF Has(payload, "data") /\ payload.data.truthy /\ payload.data.isArray
                      THEN payload.data.items ELSE <<>>
           length == Len(newData)
           listed == IF firstOffset THEN newData ELSE draft.data \o newData
           counted == IF firstOffset THEN length ELSE draft.offset + length
           set == Spread(draft, [data |-> listed, offset |-> counted,
                                 hasMore |-> (length > 0), error |-> Null])
       IN Spread(Spread(set, rest), [pending |-> FALSE])

\* Mutant: ADD_LAST pushes the item and leaves offset as it was.
PagingAddLast_KeepsOffset(dflt, draft, action) ==
  Spread(draft, [data |-> Append(draft.data, PayloadOf(action))])

PagingAddLast(dflt, draft, action) ==
  Spread(draft, [data |-> Append(draft.data, PayloadOf(action)), offset |-> draft.offset + 1])

\* Mutant: ADD_FIRST pushes the item at the end.
PagingAddFirst_Pushes(dflt, draft, action) ==
  Spread(draft, [data |-> Append(draft.data, PayloadOf(action)), offset |-> draft.offset + 1])

PagingAddFirst(dflt, draft, action) ==
  Spread(draft, [data |-> <<PayloadOf(action)>> \o draft.data, offset |-> draft.offset + 1])

\* Mutant: UPDATE replaces every item with the payload's id.
PagingUpdate_EveryMatch(dflt, draft, action) ==
  IF ~Has(action, "payload")
  THEN IF draft.data = <<>> THEN draft ELSE TypeError
  ELSE LET updateData == action.payload
       IN [draft EXCEPT !.data = [i \in 1..Len(@) |->
                                    IF Has(updateData, "id") /\ @[i].id = updateData.id
                                    THEN updateData ELSE @[i]]]

PagingUpdate(dflt, draft, action) ==
  IF ~Has(action, "payload")
  THEN IF draft.data = <<>> THEN draft ELSE TypeError
  ELSE LET updateData == action.payload
           index == IF Has(updateData, "id") THEN findIndex(draft.data, updateData.id) ELSE 0
       IN IF index >= 1
          THEN [draft EXCEPT !.data = [@ EXCEPT ![index] = updateData]]
          ELSE draft

\* Mutant: REPLACE puts the payload's data in place of the last item with the id.
PagingReplace_LastMatch(dflt, draft, action) ==
  IF ~Has(action, "payload") THEN TypeError
  ELSE LET payload == action.payload
           hits == IF Has(payload, "id")
                   THEN {i \in 1..Len(draft.data) : draft.data[i].id = payload.id} ELSE {}
           replaceIndex == IF hits = {} THEN 0 ELSE CHOOSE i \in hits : \A j \in hits : j <= i
       IN IF replaceIndex >= 1 /\ Has(payload, "data") /\ payload.data.truthy
             /\ ~payload.data.isArray
          THEN [draft EXCEPT !.data = [@ EXCEPT ![replaceIndex] = payload.data.value]]
          ELSE draft

PagingReplace(dflt, draft, action) ==
  IF ~Has(action, "payload") THEN TypeError
  ELSE LET payload == action.payload
           replaceIndex == IF Has(payload, "id") THEN findIndex(draft.data, payload.id) ELSE 0
       IN IF replaceIndex >= 1 /\ Has(payload, "data") /\ payload.data.truthy
             /\ ~payload.data.isArray
          THEN [draft EXCEPT !.data = [@ EXCEPT ![replaceIndex] = payload.data.value]]
          ELSE draft

\* Mutant: REMOVE takes the item out and leaves offset as it was.
PagingRemove_KeepsOffset(dflt, draft, action) ==
  LET index == IF Has(action, "payload") THEN findIndex(draft.data, action.payload) ELSE 0
  IN IF index >= 1
     THEN Spread(draft, [data |-> splice(draft.data, index)])
     ELSE draft

PagingRemove(dflt, draft, action) ==
  LET index == IF Has(action, "payload") THEN findIndex(draft.data, action.payload) ELSE 0
  IN IF index >= 1
     THEN Spread(draft, [data |-> splice(draft.data, index), offset |-> draft.offset - 1])
     ELSE draft

PagingFail(dflt, draft, action) ==
  Spread(draft, [error |-> PayloadOf(action), pending |-> FALSE])

\* Mutant: RESET overlays the default state on the current state.
PagingReset_Overlay(dflt, st, action) == Spread(st, dflt)

PagingReset(dflt, st, action) == dflt

PagingFallThrough(dflt, st, action) == st

PagingReducer(p, dflt, st, action) ==
  CASE action.type = ActionTypeMaker_PENDING(p) -> PagingPending(dflt, st, action)
    [] action.type = ActionTypeMaker_SUCCESS(p) -> PagingSuccess(dflt, st, action)
    [] action.type = ActionTypeMaker_ADD_LAST(p) -> PagingAddLast(dflt, st, action)
    [] action.type = ActionTypeMaker_ADD_FIRST(p) -> PagingAddFirst(dflt, st, action)
    [] action.type = ActionTypeMaker_UPDATE(p) -> PagingUpdate(dflt, st, action)
    [] action.type = ActionTypeMaker_REPLACE(p) -> PagingReplace(dflt, st, action)
    [] action.type = ActionTypeMaker_REMOVE(p) -> PagingRemove(dflt, st, action)
    [] action.type = ActionTypeMaker_FAIL(p) -> PagingFail(dflt, st, action)
    [] action.type = ActionTypeMaker_RESET(p) -> PagingReset(dflt, st, action)
    [] OTHER -> PagingFallThrough(dflt, st, action)

(***************************************************************************)
(* createReducerBatch and createReducerGroup                               *)
(*                                                                         *)
(* The states of these reducers hold primitive values, written as strings: *)
(* JsFalse is the boolean false, "" the empty string.  a || b gives b when *)
(* a is falsy.                                                             *)
(***************************************************************************)
JsFalse == "false"

Falsy == {Null, Undefined, JsFalse, ""}

Or(a, b) == IF a \in Falsy THEN b ELSE a

\* init[key] is the tuple [actionType, initialState]; a reducer called with
\* undefined state takes its default parameter, option[1] || null.
BatchInitialState(option) == Or(option[2], Null)

BatchReducer(option, st, action) ==
  LET actionType == option[1]
      current == IF st = Undefined THEN BatchInitialState(option) ELSE st
  IN IF action.type = actionType THEN PayloadOf(action) ELSE current

createReducerBatch(init, st, action) ==
  [key \in DOMAIN init |-> BatchReducer(init[key], st[key], action)]

\* options lists the nodes in the order of Object.keys: each a record with
\* key, type and, when configured, initState and onUpdate.
InitStateOf(option) == IF Has(option, "initState") THEN option.initState ELSE Undefined

mainInitialState(options) ==
  [key \in {options[i].key : i \in 1..Len(options)} |->
     LET i == CHOOSE j \in 1..Len(options) : options[j].key = key
     IN Or(InitStateOf(options[i]), Null)]

\* The callbacks the nodes are configured with, by name:
\*   copyProfile: (state, action) => state.profile
\*   signedOut:   (state, action) => ({ ...state, profile: 'signed-out' })
onUpdate(name, st, action) ==
  IF name = "copyProfile" THEN st.profile ELSE Assign(st, "profile", "signed-out")

HasOnUpdate(node) == Has(node, "onUpdate")

GroupUpdate(option, draft, action) ==
  Assign(draft, option.key,
         IF HasOnUpdate(option) THEN onUpdate(option.onUpdate, draft, action)
         ELSE PayloadOf(action))

RECURSIVE GroupResetKeys(_, _, _)
GroupResetKeys(options, draft, i) ==
  IF i > Len(options) THEN draft
  ELSE GroupResetKeys(options, Assign(draft, options[i].key, InitStateOf(options[i])), i + 1)

\* The reset callback is called and what it returns is dropped: the draft is
\* left as it was.
GroupReset(options, resetOption, st, action) ==
  IF HasOnUpdate(resetOption) THEN st ELSE GroupResetKeys(options, st, 1)

createReducerGroup(options, resetOption, st, action) ==
  LET hits == {i \in 1..Len(options) : options[i].type = action.type}
  IN IF hits # {}
     THEN GroupUpdate(options[CHOOSE i \in hits : \A j \in hits : i <= j], st, action)
     ELSE IF resetOption.type = action.type
          THEN GroupReset(options, resetOption, st, action)
          ELSE st

(***************************************************************************)
(* The inputs: what the constructors are called with and what the store    *)
(* is sent.                                                                *)
(***************************************************************************)
MaxItems == 2

\* The constructors' documented calls: createAsyncReducer('FETCH_USER_PROFILE'),
\* createAsyncPagingReducer('FETCH_CARTS').
AsyncPrefix == "FETCH_USER_PROFILE"
PagingPrefix == "FETCH_CARTS"
Prefixes == {AsyncPrefix, PagingPrefix}

Payloads == {"p1", "p2"}
KeyedPayload == "p1"

Keys == {"a", "a.data"}

AsyncInitialStates ==
  {EmptyObject, [data |-> "d0", pending |-> TRUE, error |-> "e0"]}

\* An action with and without a key, with and without a payload.
WithKeys(actions, keys) == actions \cup {Assign(a, "key", k) : a \in actions, k \in keys}

WithPayloads(actions, payloads) ==
  actions \cup {Assign(a, "payload", v) : a \in actions, v \in payloads}

OtherTypes(p) ==
  {"UNRELATED", ActionTypeMaker_PENDING(p) \o "X"}
    \cup {ActionTypeMaker_SUCCESS(q) : q \in Prefixes \ {p}}

AsyncActions(p) ==
  WithKeys({[type |-> ActionTypeMaker_PENDING(p)]}, Keys \cup {""})
    \cup {[type |-> t, payload |-> v] :
            t \in {ActionTypeMaker_SUCCESS(p), ActionTypeMaker_FAIL(p)}, v \in Payloads}
    \cup {[type |-> t, payload |-> KeyedPayload, key |-> k] :
            t \in {ActionTypeMaker_SUCCESS(p), ActionTypeMaker_FAIL(p)}, k \in Keys}
    \cup WithKeys({[type |-> ActionTypeMaker_RESET(p)]}, Keys \cup {"", "*"})
    \cup {[type |-> t, key |-> "a", payload |-> "p1"] :
            t \in OtherTypes(p) \cup {ActionTypeMaker_REMOVE(p)}}

Item1a == [id |-> 1, v |-> "a"]
Item1b == [id |-> 1, v |-> "b"]
Item2a == [id |-> 2, v |-> "a"]
Items == {Item1a, Item1b, Item2a}
\* The ids of the items, and one id that no item has.
ItemIds == {Item1a.id, Item2a.id}
UnknownId == CHOOSE n \in 1..(Cardinality(ItemIds) + 1) : n \notin ItemIds

PagingInitialStates == {EmptyObject, [data |-> <<Item2a>>, offset |-> 1]}

PendingPayloads ==
  {EmptyObject, [clear |-> TRUE], [clear |-> FALSE, total |-> 7],
   [clear |-> TRUE, offset |-> 1, data |-> <<Item1a>>],
   [hasMore |-> FALSE, pending |-> FALSE]}

SuccessPayloads ==
  {EmptyObject, [data |-> JsObject(Item1a)], [data |-> JsArray(<<>>)],
   [firstOffset |-> TRUE],
   [data |-> JsArray(<<Item1a>>)], [data |-> JsArray(<<Item1b, Item2a>>)],
   [data |-> JsArray(<<Item2a>>), firstOffset |-> TRUE],
   [data |-> JsArray(<<Item1a>>), firstOffset |-> FALSE, total |-> 7],
   [data |-> JsArray(<<Item1a>>), offset |-> 0],
   [data |-> JsArray(<<>>), hasMore |-> TRUE, error |-> "e1", pending |-> TRUE]}

ReplacePayloads ==
  {[id |-> 1, data |-> JsObject(Item2a)], [id |-> 2, data |-> JsObject(Item1b)],
   [id |-> 1, data |-> JsArray(<<Item2a>>)], [id |-> 1], [id |-> 1, data |-> JsNull],
   [id |-> UnknownId, data |-> JsObject(Item2a)]}

\* Payloads of different JavaScript types are kept in separate sets.
PagingPendingActions(p) ==
  WithPayloads({[type |-> ActionTypeMaker_PENDING(p)]}, PendingPayloads)

PagingObjectActions(p) ==
  WithPayloads({[type |-> ActionTypeMaker_SUCCESS(p)]}, SuccessPayloads)
    \cup {[type |-> t, payload |-> i] :
            t \in {ActionTypeMaker_ADD_LAST(p), ActionTypeMaker_ADD_FIRST(p)}, i \in Items}
    \cup WithPayloads({[type |-> ActionTypeMaker_UPDATE(p)]},
                      Items \cup {[id |-> UnknownId, v |-> "a"]})
    \cup WithPayloads({[type |-> ActionTypeMaker_REPLACE(p)]}, ReplacePayloads)
    \cup {[type |-> ActionTypeMaker_RESET(p)]}
    \cup {[type |-> t] : t \in OtherTypes(p)}

PagingIdActions(p) ==
  WithPayloads({[type |-> ActionTypeMaker_REMOVE(p)]}, {1, 2, UnknownId})

PagingStringActions(p) ==
  WithPayloads({[type |-> ActionTypeMaker_FAIL(p)]}, {"e1"})

\* createReducerBatch({mute: ['SET_MUTE', false], profile: ['SET_PROFILE', ...]}),
\* the documented call, with a string for the profile.
BatchInit == [mute |-> <<"SET_MUTE", JsFalse>>, profile |-> <<"SET_PROFILE", "guest">>]

\* A group of four nodes: a falsy initState, a truthy one, none, and a node
\* with a callback.
GroupOptions ==
  <<[key |-> "mute", type |-> "SET_MUTE", initState |-> JsFalse],
    [key |-> "profile", type |-> "SET_PROFILE", initState |-> "guest"],
    [key |-> "token", type |-> "SET_TOKEN"],
    [key |-> "backup", type |-> "BACKUP", initState |-> "none", onUpdate |-> "copyProfile"]>>

ResetOptions == {[type |-> "RESET_ALL"], [type |-> "RESET_ALL", onUpdate |-> "signedOut"]}

GroupActions(options, resetOption) ==
  WithPayloads({[type |-> t] : t \in {options[i].type : i \in 1..Len(options)}
                                      \cup {resetOption.type, "UNRELATED"}},
               Payloads)

BatchActions(init) ==
  WithPayloads({[type |-> t] : t \in {init[key][1] : key \in DOMAIN init} \cup {"UNRELATED"}},
               Payloads \cup {JsFalse})

(***************************************************************************)
(* The store.                                                              *)
(***************************************************************************)
InitAction == [type |-> "@@INIT"]

Init ==
  /\ kind \in {"async", "paging", "group", "batch"}
  /\ prefix = CASE kind = "async" -> AsyncPrefix
                [] kind = "paging" -> PagingPrefix
                [] OTHER -> Undefined
  /\ args \in CASE kind = "async" -> {[initialState |-> i] : i \in AsyncInitialStates}
                [] kind = "paging" -> {[initialState |-> i] : i \in PagingInitialStates}
                [] kind = "group" -> {[options |-> GroupOptions, resetOption |-> r] :
                                        r \in ResetOptions}
                [] kind = "batch" -> {[init |-> BatchInit]}
  /\ defaultState = CASE kind = "async" -> AsyncDefaultState(args.initialState)
                      [] kind = "paging" -> PagingDefaultState(args.initialState)
                      [] kind = "group" -> mainInitialState(args.options)
                      [] kind = "batch" -> [key \in DOMAIN args.init |->
                                              BatchInitialState(args.init[key])]
  /\ state = IF kind = "batch"
             THEN [key \in DOMAIN args.init |-> Undefined]
             ELSE defaultState
  /\ last = InitAction
  /\ outcome = "returned"

DispatchAsync ==
  /\ kind = "async"
  /\ \E action \in AsyncActions(prefix) :
       /\ state' = AsyncReducer(prefix, defaultState, state, action)
       /\ last' = action
       /\ outcome' = "returned"
  /\ UNCHANGED <<kind, args, prefix, defaultState>>

InBounds(st) == Len(st.data) <= MaxItems

PagingStep(action) ==
  LET result == PagingReducer(prefix, defaultState, state, action)
  IN /\ IF Threw(result)
        THEN state' = state /\ outcome' = "threw"
        ELSE InBounds(result) /\ state' = result /\ outcome' = "returned"
     /\ last' = action

DispatchPaging ==
  /\ kind = "paging"
  /\ \/ \E action \in PagingPendingActions(prefix) : PagingStep(action)
     \/ \E action \in PagingObjectActions(prefix) : PagingStep(action)
     \/ \E action \in PagingIdActions(prefix) : PagingStep(action)
     \/ \E action \in PagingStringActions(prefix) : PagingStep(action)
  /\ UNCHANGED <<kind, args, prefix, defaultState>>

\* The group reducer is the store's root reducer; its state is always an
\* object, so the typeof test of the update branch holds.
DispatchGroup ==
  /\ kind = "group"
  /\ \E action \in GroupActions(args.options, args.resetOption) :
       /\ state' = createReducerGroup(args.options, args.resetOption, state, action)
       /\ last' = action
       /\ outcome' = "returned"
  /\ UNCHANGED <<kind, args, prefix, defaultState>>

\* Every reducer of the batch is called with its own slice of the state; a
\* slice is undefined until its reducer has returned a value for it.
DispatchBatch ==
  /\ kind = "batch"
  /\ \E action \in BatchActions(args.init) :
       /\ state' = createReducerBatch(args.init, state, action)
       /\ last' = action
       /\ outcome' = "returned"
  /\ UNCHANGED <<kind, args, prefix, defaultState>>

Next == DispatchAsync \/ DispatchPaging \/ DispatchGroup \/ DispatchBatch

Spec == Init /\ [][Next]_vars

(***************************************************************************)
(* A store on the paging reducer created with the default initial state,   *)
(* sent only actions whose payload names no offset (PENDING, SUCCESS) and  *)
(* no data beside the SUCCESS list (PENDING).                              *)
(***************************************************************************)
Overrides(p, action) ==
  /\ Has(action, "payload")
  /\ \/ action.type = ActionTypeMaker_PENDING(p)
          /\ (Has(action.payload, "offset") \/ Has(action.payload, "data"))
     \/ action.type = ActionTypeMaker_SUCCESS(p) /\ Has(action.payload, "offset")

NoOverride(p, actions) == {action \in actions : ~Overrides(p, action)}

InitNoOverride ==
  /\ kind = "paging"
  /\ prefix = PagingPrefix
  /\ args = [initialState |-> defaultAsyncPagingState]
  /\ defaultState = PagingDefaultState(args.initialState)
  /\ state = defaultState
  /\ last = InitAction
  /\ outcome = "returned"

DispatchPagingNoOverride ==
  /\ \/ \E action \in NoOverride(prefix, PagingPendingActions(prefix)) : PagingStep(action)
     \/ \E action \in NoOverride(prefix, PagingObjectActions(prefix)) : PagingStep(action)
     \/ \E action \in PagingIdActions(prefix) : PagingStep(action)
     \/ \E action \in PagingStringActions(prefix) : PagingStep(action)
  /\ UNCHANGED <<kind, args, prefix, defaultState>>

NextNoOverride == DispatchPagingNoOverride

SpecNoOverride == InitNoOverride /\ [][NextNoOverride]_vars

(***************************************************************************)
(* Properties.  A step of the store takes `state` to `state'` by the       *)
(* action `last'`; `last` is the action of the step before.                *)
(***************************************************************************)
AsyncTypes(p) ==
  {ActionTypeMaker_PENDING(p), ActionTypeMaker_SUCCESS(p), ActionTypeMaker_FAIL(p),
   ActionTypeMaker_RESET(p)}

PagingTypes(p) ==
  AsyncTypes(p) \cup {ActionTypeMaker_UPDATE(p), ActionTypeMaker_ADD_LAST(p),
                      ActionTypeMaker_ADD_FIRST(p), ActionTypeMaker_REPLACE(p),
                      ActionTypeMaker_REMOVE(p)}

TopLevel(st) == [f \in {"data", "pending", "error"} |-> st[f]]

\* The store's reducer is the simple one and the step's action has this type and no key.
AsyncUnkeyed(type) == kind = "async" /\ last'.type = type /\ ~KeyIsTruthy(last')

\* The store's reducer is the simple one and the step's action has this type and a key.
AsyncKeyed(type) == kind = "async" /\ last'.type = type /\ KeyIsTruthy(last')

\* The store's reducer is the paging one, the step's action has this type and
\* the reducer returned a state for it.
PagingReturned(type) == kind = "paging" /\ last'.type = type /\ outcome' = "returned"

\* C1: an action whose type is none of the reducer's derived types returns the
\* state it was given, for the simple and for the paging reducer.
C1_UnrelatedActionReturnsState ==
  [][/\ (kind = "async" /\ last'.type \notin AsyncTypes(prefix))
          => (state' = state /\ outcome' = "returned")
     /\ (kind = "paging" /\ last'.type \notin PagingTypes(prefix))
          => (state' = state /\ outcome' = "returned")]_vars

C1_Witness ==
  /\ kind = "async"
  /\ last.type = ActionTypeMaker_REMOVE(prefix)
  /\ Has(state, "dataEntity")
  /\ state.data = "p2"
  /\ state # defaultState

\* C2: simple reducer, no key: PENDING sets pending and keeps data and error,
\* and SUCCESS with payload X gives data = X, error = null, pending = false
\* from any state; so PENDING followed by SUCCESS yields that, whatever data
\* and error were before.
C2_PendingThenSuccess ==
  [][/\ AsyncUnkeyed(ActionTypeMaker_PENDING(prefix))
          => (state'.pending = TRUE /\ state'.data = state.data /\ state'.error = state.error)
     /\ AsyncUnkeyed(ActionTypeMaker_SUCCESS(prefix))
          => (state'.data = PayloadOf(last') /\ state'.error = Null
              /\ state'.pending = FALSE)]_vars

C2_Witness ==
  /\ kind = "async"
  /\ last = [type |-> ActionTypeMaker_SUCCESS(prefix), payload |-> "p2"]
  /\ defaultState.data = "d0"
  /\ state.data = "p2" /\ state.error = Null /\ state.pending = FALSE

\* C3: a FAIL with payload E sets error = E and pending = false and leaves
\* data unchanged (simple reducer, no key, and paging reducer), after a PENDING
\* as from any other state; the paging reducer leaves offset unchanged too.
C3_FailKeepsData ==
  [][/\ AsyncUnkeyed(ActionTypeMaker_FAIL(prefix))
          => (state'.error = PayloadOf(last') /\ state'.pending = FALSE
              /\ state'.data = state.data)
     /\ PagingReturned(ActionTypeMaker_FAIL(prefix))
          => (state'.error = PayloadOf(last') /\ state'.pending = FALSE
              /\ state'.data = state.data /\ state'.offset = state.offset)]_vars

C3_Witness ==
  /\ kind = "paging"
  /\ last.type = ActionTypeMaker_FAIL(prefix)
  /\ outcome = "returned"
  /\ Has(last, "payload") /\ last.payload = "e1"
  /\ state.data = <<Item1a, Item2a>> /\ state.offset = 2
  /\ state.error = "e1" /\ state.pending = FALSE /\ state.hasMore

\* C4: simple reducer: RESET without key gives data = null, error = null,
\* pending = false whatever the configured initialState, and leaves dataEntity
\* as it was.
C4_ResetWithoutKey ==
  [][AsyncUnkeyed(ActionTypeMaker_RESET(prefix))
       => /\ TopLevel(state') = [data |-> Null, pending |-> FALSE, error |-> Null]
          /\ Has(state', "dataEntity") = Has(state, "dataEntity")
          /\ DataEntityOf(state') = DataEntityOf(state)]_vars

C4_Witness ==
  /\ kind = "async"
  /\ last = [type |-> ActionTypeMaker_RESET(prefix)]
  /\ defaultState = [data |-> "d0", pending |-> TRUE, error |-> "e0"]
  /\ TopLevel(state) = [data |-> Null, pending |-> FALSE, error |-> Null]
  /\ Has(state, "dataEntity") /\ Has(state.dataEntity, "a")

\* C5 (as claimed): simple reducer: RESET with key '*' removes the whole
\* dataEntity mapping; RESET with any other non-empty key k removes exactly the
\* entry dataEntity[k] and leaves the sibling entries and the top-level
\* data/pending/error unchanged, for every key string k.
C5_ResetWithKeyRemovesEntry ==
  [][AsyncKeyed(ActionTypeMaker_RESET(prefix))
       => /\ TopLevel(state') = TopLevel(state)
          /\ IF last'.key = "*"
             THEN ~Has(state', "dataEntity")
             ELSE /\ ~Has(DataEntityOf(state'), last'.key)
                  /\ \A k \in (DOMAIN DataEntityOf(state)) \ {last'.key} :
                       /\ Has(DataEntityOf(state'), k)
                       /\ DataEntityOf(state')[k] = DataEntityOf(state)[k]]_vars

\* C6: simple reducer: FAIL with a non-empty key k and payload E creates a
\* missing dataEntity[k] as the default state with error = E and pending = true,
\* and sets error = E and pending = false on an existing dataEntity[k].
C6_KeyedFail ==
  [][AsyncKeyed(ActionTypeMaker_FAIL(prefix))
       => LET entry == DataEntityOf(state')[last'.key]
          IN IF Has(DataEntityOf(state), last'.key)
             THEN /\ entry.error = PayloadOf(last')
                  /\ entry.pending = FALSE
             ELSE entry = [data |-> defaultState.data, pending |-> TRUE,
                           error |-> PayloadOf(last')]]_vars

C6_Witness ==
  /\ kind = "async"
  /\ last = [type |-> ActionTypeMaker_FAIL(prefix), key |-> "a", payload |-> "p1"]
  /\ defaultState.data = "d0"
  /\ Has(state, "dataEntity") /\ Has(state.dataEntity, "a")
  /\ state.dataEntity["a"] = [data |-> "d0", pending |-> TRUE, error |-> "p1"]

\* The items a SUCCESS payload delivers: its data when that is an array.
NewItems(payload) ==
  IF Has(payload, "data") /\ payload.data.isArray THEN payload.data.items ELSE <<>>

\* C7: paging SUCCESS whose payload has no offset field: with firstOffset true
\* the list becomes the new items and offset their count; otherwise the new
\* items are appended in order and offset grows by their count; data that is
\* missing or no array counts as no new items.
C7_SuccessListAndOffset ==
  [][(PagingReturned(ActionTypeMaker_SUCCESS(prefix)) /\ ~Has(last'.payload, "offset"))
       => LET new == NewItems(last'.payload)
          IN IF Has(last'.payload, "firstOffset") /\ last'.payload.firstOffset
             THEN state'.data = new /\ state'.offset = Len(new)
             ELSE /\ state'.data = state.data \o new
                  /\ state'.offset = state.offset + Len(new)]_vars

C7_Witness ==
  /\ kind = "paging"
  /\ last.type = ActionTypeMaker_SUCCESS(prefix)
  /\ outcome = "returned"
  /\ last.payload = [data |-> JsArray(<<Item1a>>)]
  /\ state.data = <<Item2a, Item1a>>
  /\ state.offset = 2

\* C8 (as claimed): paging reducer: after every SUCCESS, for any payload,
\* hasMore = (new item count > 0), error = null and pending = false.
C8_SuccessFlagsAnyPayload ==
  (kind = "paging" /\ last.type = ActionTypeMaker_SUCCESS(prefix) /\ outcome = "returned")
    => /\ state.hasMore = (Len(NewItems(last.payload)) > 0)
       /\ state.error = Null
       /\ state.pending = FALSE

\* C8 (amended): after every SUCCESS whose payload record has no hasMore and no
\* error field, hasMore = (new item count > 0) and error = null; a hasMore or
\* error field of the payload is copied onto the state instead; after every
\* SUCCESS pending = false.  A step that turns hasMore from true to false is a
\* SUCCESS or a RESET.
C8_SuccessFlags ==
  [][/\ PagingReturned(ActionTypeMaker_SUCCESS(prefix))
          => /\ state'.pending = FALSE
             /\ state'.hasMore = IF Has(last'.payload, "hasMore") THEN last'.payload.hasMore
                                 ELSE Len(NewItems(last'.payload)) > 0
             /\ state'.error = IF Has(last'.payload, "error") THEN last'.payload.error
                               ELSE Null
     /\ (kind = "paging" /\ state.hasMore /\ ~state'.hasMore)
          => last'.type \in {ActionTypeMaker_SUCCESS(prefix), ActionTypeMaker_RESET(prefix)}]_vars

C8_Witness ==
  /\ kind = "paging"
  /\ last.type = ActionTypeMaker_SUCCESS(prefix)
  /\ outcome = "returned"
  /\ last.payload = [data |-> JsArray(<<>>)]
  /\ state.data = <<Item1a, Item1b>>
  /\ state.hasMore = FALSE /\ state.error = Null /\ state.pending = FALSE

\* C9 (as claimed): paging PENDING, for any payload record: pending = true and
\* hasMore = true; with clear true data is empty and offset is 0; with clear
\* absent or false data and offset are kept; every other payload field is
\* copied onto the state.
C9_PendingAnyPayload ==
  [][PagingReturned(ActionTypeMaker_PENDING(prefix))
       => LET payload == last'.payload
              clear == Has(payload, "clear") /\ payload.clear
          IN /\ state'.pending = TRUE /\ state'.hasMore = TRUE
             /\ IF clear THEN state'.data = <<>> /\ state'.offset = 0
                         ELSE state'.data = state.data /\ state'.offset = state.offset
             /\ \A f \in (DOMAIN payload) \ {"clear", "pending", "hasMore", "data", "offset"} :
                  Has(state', f) /\ state'[f] = payload[f]]_vars

\* C9 (amended): paging PENDING, for any payload record: pending = true and
\* hasMore = true; every payload field other than clear, pending and hasMore
\* is copied onto the state, data and offset included; when the payload has no
\* data field, data is empty with clear true and kept otherwise; when the
\* payload has no offset field, offset is 0 with clear true and kept
\* otherwise; every other field of the state is kept.
C9_Pending ==
  [][PagingReturned(ActionTypeMaker_PENDING(prefix))
       => LET payload == last'.payload
              clear == Has(payload, "clear") /\ payload.clear
          IN /\ state'.pending = TRUE /\ state'.hasMore = TRUE
             /\ ~Has(payload, "data") => state'.data = IF clear THEN <<>> ELSE state.data
             /\ ~Has(payload, "offset") => state'.offset = IF clear THEN 0 ELSE state.offset
             /\ \A f \in (DOMAIN payload) \ {"clear", "pending", "hasMore"} :
                  Has(state', f) /\ state'[f] = payload[f]
             /\ \A f \in (DOMAIN state) \ ((DOMAIN payload)
                                           \cup {"pending", "hasMore", "data", "offset"}) :
                  Has(state', f) /\ state'[f] = state[f]
             /\ DOMAIN state' = (DOMAIN state) \cup ((DOMAIN payload) \ {"clear"})]_vars

C9_Witness ==
  /\ kind = "paging"
  /\ last.type = ActionTypeMaker_PENDING(prefix)
  /\ outcome = "returned"
  /\ last.payload = [clear |-> FALSE, total |-> 7]
  /\ state.data = <<Item2a, Item1b>> /\ state.offset = 2
  /\ state.total = 7 /\ state.error = "e1"
  /\ state.pending /\ state.hasMore

\* C10: paging ADD_FIRST puts the payload item at the front of data, ADD_LAST at
\* the end, the existing items keep their order; each adds 1 to offset and
\* leaves pending, error and hasMore (and every other field) unchanged.
C10_AddFirstAddLast ==
  [][/\ PagingReturned(ActionTypeMaker_ADD_FIRST(prefix))
          => state' = [state EXCEPT !.data = <<last'.payload>> \o state.data,
                                    !.offset = state.offset + 1]
     /\ PagingReturned(ActionTypeMaker_ADD_LAST(prefix))
          => state' = [state EXCEPT !.data = state.data \o <<last'.payload>>,
                                    !.offset = state.offset + 1]]_vars

C10_Witness ==
  /\ kind = "paging"
  /\ last.type = ActionTypeMaker_ADD_FIRST(prefix)
  /\ last.payload = Item1b
  /\ state.data = <<Item1b, Item2a>>
  /\ state.offset = 2
  /\ state.pending /\ state.hasMore /\ state.error = "e1"

\* The positions of the items of data that have this id.
Matches(data, id) == {i \in 1..Len(data) : data[i].id = id}

\* The least element of a non-empty set of positions.
First(positions) == CHOOSE i \in positions : \A j \in positions : i <= j

\* C11: paging REMOVE with an id: when some item has the id, the first such
\* item is taken out, the others keep their order, offset goes down by 1 (and
\* every other field is kept); when no item has it the state is unchanged.
C11_Remove ==
  [][(PagingReturned(ActionTypeMaker_REMOVE(prefix)) /\ Has(last', "payload"))
       => LET hits == Matches(state.data, last'.payload)
          IN IF hits = {}
             THEN state' = state
             ELSE /\ Len(state'.data) = Len(state.data) - 1
                  /\ \A i \in 1..Len(state'.data) :
                       state'.data[i] = state.data[IF i < First(hits) THEN i ELSE i + 1]
                  /\ state'.offset = state.offset - 1
                  /\ [state' EXCEPT !.data = <<>>, !.offset = 0]
                       = [state EXCEPT !.data = <<>>, !.offset = 0]]_vars

C11_Witness ==
  /\ kind = "paging"
  /\ last.type = ActionTypeMaker_REMOVE(prefix)
  /\ outcome = "returned"
  /\ Has(last, "payload") /\ last.payload = Item1a.id
  /\ state.data = <<Item1b>>
  /\ state.offset = 1
  /\ Has(state, "total")

\* C12: paging UPDATE with a payload item: the first item of data whose id is
\* the payload's id becomes the payload, every other item, the length of the
\* list, offset and every other field are kept; when no item has the id the
\* state is unchanged.
C12_Update ==
  [][(PagingReturned(ActionTypeMaker_UPDATE(prefix)) /\ Has(last', "payload"))
       => LET hits == Matches(state.data, last'.payload.id)
          IN IF hits = {}
             THEN state' = state
             ELSE state' = [state EXCEPT !.data[First(hits)] = last'.payload]]_vars

C12_Witness ==
  /\ kind = "paging"
  /\ last.type = ActionTypeMaker_UPDATE(prefix)
  /\ outcome = "returned"
  /\ Has(last, "payload") /\ last.payload = Item1b
  /\ state.data = <<Item1b, Item1a>>
  /\ state.offset = 2

\* What a REPLACE payload's data would put in the list: the object it carries,
\* or the value itself when it carries none (null).
Replacement(data) == IF Has(data, "value") THEN data.value ELSE data

\* C13 (as claimed): paging REPLACE with payload {id, data}: the first item
\* with the payload's id is replaced by payload.data, length and offset are
\* kept; the state is unchanged when no item has the id or data is an array.
C13_ReplaceAnyData ==
  [][(PagingReturned(ActionTypeMaker_REPLACE(prefix))
        /\ Has(last'.payload, "id") /\ Has(last'.payload, "data"))
       => LET hits == Matches(state.data, last'.payload.id)
          IN IF hits = {} \/ last'.payload.data.isArray
             THEN state' = state
             ELSE state' = [state EXCEPT
                              !.data[First(hits)] = Replacement(last'.payload.data)]]_vars

\* C13 (amended): paging REPLACE with payload {id, data}: when data is truthy
\* and no array, the first item with the payload's id is replaced by data,
\* length, offset and every other field are kept; the state is unchanged when
\* no item has the id, when data is an array and when data is falsy (null).
C13_Replace ==
  [][(PagingReturned(ActionTypeMaker_REPLACE(prefix))
        /\ Has(last'.payload, "id") /\ Has(last'.payload, "data"))
       => LET hits == Matches(state.data, last'.payload.id)
              data == last'.payload.data
          IN IF hits = {} \/ data.isArray \/ ~data.truthy
             THEN state' = state
             ELSE state' = [state EXCEPT !.data[First(hits)] = data.value]]_vars

C13_Witness ==
  /\ kind = "paging"
  /\ last.type = ActionTypeMaker_REPLACE(prefix)
  /\ outcome = "returned"
  /\ last.payload = [id |-> 1, data |-> JsObject(Item2a)]
  /\ state.data = <<Item2a, Item1b>>
  /\ state.offset = 2

\* C14: paging RESET returns the reducer's default state, the built-in
\* defaults overlaid with the configured initialState, from every state; no
\* field merged from an earlier payload is left.
C14_Reset ==
  [][PagingReturned(ActionTypeMaker_RESET(prefix))
       => /\ state' = Spread(defaultAsyncPagingState, args.initialState)
          /\ \A f \in DOMAIN state' :
               f \in (DOMAIN defaultAsyncPagingState) \cup (DOMAIN args.initialState)]_vars

C14_Witness ==
  /\ kind = "paging"
  /\ last.type = ActionTypeMaker_RESET(prefix)
  /\ outcome = "returned"
  /\ args.initialState = [data |-> <<Item2a>>, offset |-> 1]
  /\ state = [data |-> <<Item2a>>, offset |-> 1, pending |-> FALSE, error |-> Null,
              hasMore |-> TRUE]

\* The group reducer handled the reset action in this step.
GroupResetFired == kind = "group" /\ last'.type = args.resetOption.type

\* C15 (as claimed): createReducerGroup: when the reset action fires and no
\* reset callback is configured, every tracked field gets the value it has in
\* the reducer's initial state, whatever initState its node configures.
C15_ResetRestoresInitialState ==
  [][(GroupResetFired /\ ~HasOnUpdate(args.resetOption))
       => \A i \in 1..Len(args.options) :
            state'[args.options[i].key] = mainInitialState(args.options)[args.options[i].key]]_vars

\* C16 (as claimed): createReducerBatch: a generated reducer called with
\* undefined state and an action of another type returns the second element
\* of its tuple; called with its own action type it returns action.payload.
C16_BatchInitialState ==
  [][kind = "batch"
       => \A key \in DOMAIN args.init :
            /\ (state[key] = Undefined /\ last'.type # args.init[key][1])
                 => state'[key] = args.init[key][2]
            /\ last'.type = args.init[key][1] => state'[key] = PayloadOf(last')]_vars

\* C17 (as claimed): createReducerGroup: when the reset action fires and the
\* reset node has an onUpdate callback, the state the reducer returns is the
\* one the callback returns.
C17_ResetCallbackDecides ==
  [][(GroupResetFired /\ HasOnUpdate(args.resetOption))
       => state' = onUpdate(args.resetOption.onUpdate, state, last')]_vars

\* C18: paging reducer created with the default initial state: after any
\* sequence of its nine actions whose payloads carry no offset and no data
\* override, offset is the number of items in data (and so is not negative).
C18_OffsetCountsItems ==
  state.offset = Len(state.data) /\ state.offset >= 0

C18_Witness ==
  /\ last.type = ActionTypeMaker_REMOVE(prefix)
  /\ outcome = "returned"
  /\ Has(last, "payload") /\ last.payload = Item1a.id
  /\ state.data = <<Item2a>>
  /\ state.offset = 1
  /\ Has(state, "total") /\ state.hasMore = FALSE

\* C19: simple reducer: a PENDING, SUCCESS or FAIL with a non-empty key k
\* changes only dataEntity[k], creating the mapping and the entry when absent:
\* top-level data, pending and error and the entries of the other keys are
\* kept; an action without key leaves dataEntity as it was.
C19_KeyedFrame ==
  [][/\ (\E type \in AsyncTypes(prefix) \ {ActionTypeMaker_RESET(prefix)} : AsyncKeyed(type))
          => /\ TopLevel(state') = TopLevel(state)
             /\ DOMAIN state' = (DOMAIN state) \cup {"dataEntity"}
             /\ DOMAIN state'.dataEntity = (DOMAIN DataEntityOf(state)) \cup {last'.key}
             /\ \A k \in (DOMAIN DataEntityOf(state)) \ {last'.key} :
                  state'.dataEntity[k] = DataEntityOf(state)[k]
     /\ (kind = "async" /\ ~KeyIsTruthy(last'))
          => /\ Has(state', "dataEntity") = Has(state, "dataEntity")
             /\ DataEntityOf(state') = DataEntityOf(state)]_vars

C19_Witness ==
  /\ kind = "async"
  /\ last = [type |-> ActionTypeMaker_SUCCESS(prefix), key |-> "a.data", payload |-> "p1"]
  /\ state.data = "p2" /\ state.pending = TRUE /\ state.error = Null
  /\ Has(state, "dataEntity") /\ DOMAIN state.dataEntity = {"a", "a.data"}
  /\ state.dataEntity["a"].pending = TRUE
  /\ state.dataEntity["a.data"] = [data |-> "p1", error |-> Null, pending |-> FALSE]

\* C20 (as claimed): simple reducer: right after every SUCCESS or FAIL the
\* slot it is aimed at (top level, or the entry of its key) has pending =
\* false; after RESET the top level has pending = false, or the entry of its
\* key is gone; no terminal action leaves its slot with pending = true.
C20_TerminalActionEndsPending ==
  [][/\ (AsyncUnkeyed(ActionTypeMaker_SUCCESS(prefix)) \/ AsyncUnkeyed(ActionTypeMaker_FAIL(prefix))
           \/ AsyncUnkeyed(ActionTypeMaker_RESET(prefix)))
          => state'.pending = FALSE
     /\ (AsyncKeyed(ActionTypeMaker_SUCCESS(prefix)) \/ AsyncKeyed(ActionTypeMaker_FAIL(prefix)))
          => DataEntityOf(state')[last'.key].pending = FALSE
     /\ AsyncKeyed(ActionTypeMaker_RESET(prefix))
          => IF last'.key = "*" THEN ~Has(state', "dataEntity")
             ELSE ~Has(DataEntityOf(state'), last'.key)]_vars

\* C21 (as claimed): paging reducer: for every action of one of the nine
\* derived types and every payload, an absent payload and malformed ones
\* included, the reducer returns a state and raises no runtime error.
C21_PagingNeverThrows ==
  [][(kind = "paging" /\ last'.type \in PagingTypes(prefix)) => outcome' = "returned"]_vars

====
